---- MODULE Spec2Model ----
(***************************************************************************)
(* Model of pragma/core/types.py: the network registry with get_rpc_url,   *)
(* the domain entities Currency, Pair and DataType with their canonical    *)
(* serialization, and the on-chain enumerations.                           *)
(*                                                                         *)
(* Python strings are TLA+ strings.  A Python value whose type matters to  *)
(* the code (isinstance tests, None defaults) is a record carrying its     *)
(* type name t.  A run of the model is one call site: Init draws the call  *)
(* and its arguments, the actions execute it.                              *)
(***************************************************************************)
EXTENDS Integers, Sequences, FiniteSets, TLC

VARIABLES call, pc, obj, result, rpc_urls

vars == <<call, pc, obj, result, rpc_urls>>

(***************************************************************************)
(* Bounds of the model.                                                    *)
(***************************************************************************)
\* the largest RPC pool a network is configured with
MaxPool == 3
\* the longest identifier string handed to the field-element codec
MaxIdLen == 3

(***************************************************************************)
(* Python values and outcomes.                                             *)
(***************************************************************************)
PyStr(s) == [t |-> "str", s |-> s]
PyInt(i) == [t |-> "int", i |-> i]
PyBool(b) == [t |-> "bool", b |-> b]
PyNone == [t |-> "NoneType"]
PyList == [t |-> "list"]

\* isinstance(x, str)
isinstance_str(x) == x.t = "str"
\* isinstance(x, int): bool is a subclass of int
isinstance_int(x) == x.t \in {"int", "bool"}

Return(v) == [kind |-> "return", v |-> v]
Raise(e) == [kind |-> "raise", exc |-> e]
NoResult == [kind |-> "none"]
NoObj == [cls |-> "none"]

(***************************************************************************)
(* Network registry.                                                       *)
(***************************************************************************)
DEVNET == "devnet"
TESTNET == "testnet"
SEPOLIA == "sepolia"
MAINNET == "mainnet"
SHARINGAN == "sharingan"
FORK_DEVNET == "fork_devnet"
PRAGMA_TESTNET == "pragma_testnet"

\* The Network literal type: the seven configured names.
Network ==
    {"devnet", "testnet", "mainnet", "sharingan", "pragma_testnet",
     "fork_devnet", "sepolia"}

\* CHAIN_IDS in insertion order, as the (key, value) items of the dict.  The
\* chain ids exceed the model checker's integers and are kept as numerals.
CHAIN_IDS ==
    << <<DEVNET, "1536727068981429685321">>,
       <<SHARINGAN, "1536727068981429685321">>,
       <<TESTNET, "1536727068981429685321">>,
       <<MAINNET, "23448594291968334">>,
       <<PRAGMA_TESTNET, "8908953246943201047421899664489">>,
       <<FORK_DEVNET, "1536727068981429685321">>,
       <<SEPOLIA, "393402133025997798000961">> >>

\* keys of a dict given by its items
dict_keys(items) == {items[i][1] : i \in 1..Len(items)}

\* d[key] of a dict given by its items (keys are unique in a dict)
dict_get(items, key) ==
    LET i == CHOOSE j \in 1..Len(items) : items[j][1] = key IN items[i][2]

\* d[key] = value on a dict given by its items: an existing key keeps its
\* position and takes the new value, a new key is appended.
dict_set_first_wins(items, key, value) ==
    IF key \in dict_keys(items) THEN items ELSE Append(items, <<key, value>>)

dict_set(items, key, value) ==
    IF key \in dict_keys(items)
    THEN [i \in 1..Len(items) |->
            IF items[i][1] = key THEN <<key, value>> ELSE items[i]]
    ELSE Append(items, <<key, value>>)

\* {v: k for k, v in items}: the comprehension inserts in iteration order
RECURSIVE invert_items(_, _)
invert_items(items, acc) ==
    IF items = << >> THEN acc
    ELSE invert_items(Tail(items),
                      dict_set(acc, Head(items)[2], Head(items)[1]))

CHAIN_ID_TO_NETWORK == invert_items(CHAIN_IDS, << >>)

\* the configured endpoint of each pooled network
configured_rpc_url(n) ==
    CASE n = MAINNET -> "https://starknet-mainnet.public.blastapi.io/rpc/v0_6"
      [] n = TESTNET -> "https://starknet-testnet.public.blastapi.io/rpc/v0_6"
      [] n = SEPOLIA -> "https://starknet-sepolia.public.blastapi.io/rpc/v0_6"

\* the networks that have a pool in RPC_URLS
PooledNetworks == {MAINNET, TESTNET, SEPOLIA}

Digits == "0123456789"

\* str(n) of an integer, as an f-string formats it
RECURSIVE int_to_str(_)
int_to_str(n) ==
    IF n < 0 THEN "-" \o int_to_str(-n)
    ELSE IF n < 10 THEN SubSeq(Digits, n + 1, n + 1)
    ELSE int_to_str(n \div 10) \o SubSeq(Digits, (n % 10) + 1, (n % 10) + 1)

\* The k-th entry of network n's pool: the configured endpoint first, then the
\* further endpoints a deployment appends to the list.
pool_entry(n, k) ==
    IF k = 1 THEN configured_rpc_url(n)
    ELSE "https://" \o n \o "-" \o int_to_str(k) \o ".rpc.example/rpc/v0_6"

\* RPC_URLS with pools of the given sizes
RPC_URLS(size) ==
    [n \in PooledNetworks |-> [k \in 1..size[n] |-> pool_entry(n, k)]]

\* port=5050 in the signatures of get_rpc_url and get_client_from_network
DefaultPort == 5050

\* str.startswith
startswith_equal(s, prefix) == s = prefix

startswith(s, prefix) ==
    Len(s) >= Len(prefix) /\ SubSeq(s, 1, Len(prefix)) = prefix

\* random.randint(a, b): the integers it can return, both ends included; an
\* empty range raises ValueError
randint_first_only(a, b) == IF a <= b THEN {a} ELSE {}

randint(a, b) == a..b

\* lst[i] of a Python list (0-based, i >= 0)
list_get(lst, i) ==
    IF i >= 0 /\ i < Len(lst) THEN Return(lst[i + 1]) ELSE Raise("IndexError")

\* RPC_URLS[n][random.randint(0, len(RPC_URLS[n]) - 1)]: the possible outcomes
random_pool_url(pool) ==
    IF randint(0, Len(pool) - 1) = {} THEN {Raise("ValueError")}
    ELSE {list_get(pool, random_index) :
            random_index \in randint(0, Len(pool) - 1)}

\* f"http://127.0.0.1:{port}/rpc"
local_rpc_url_no_port(port) == "http://127.0.0.1:" \o int_to_str(DefaultPort) \o "/rpc"

local_rpc_url(port) == "http://127.0.0.1:" \o int_to_str(port) \o "/rpc"

\* get_rpc_url(network, port): the set of its possible outcomes
get_rpc_url_no_fork(network, port) ==
    IF startswith(network, "http") THEN {Return(network)}
    ELSE IF network = TESTNET THEN random_pool_url(rpc_urls[TESTNET])
    ELSE IF network = SEPOLIA THEN random_pool_url(rpc_urls[SEPOLIA])
    ELSE IF network = MAINNET THEN random_pool_url(rpc_urls[MAINNET])
    ELSE IF network = SHARINGAN THEN {Return("https://sharingan.madara.zone")}
    ELSE IF network = PRAGMA_TESTNET
         THEN {Return("https://testnet.pragmaoracle.com/rpc")}
    ELSE IF network = DEVNET THEN {Return(local_rpc_url(port))}
    ELSE {Raise("ClientException")}

get_rpc_url(network, port) ==
    IF startswith(network, "http") THEN {Return(network)}
    ELSE IF network = TESTNET THEN random_pool_url(rpc_urls[TESTNET])
    ELSE IF network = SEPOLIA THEN random_pool_url(rpc_urls[SEPOLIA])
    ELSE IF network = MAINNET THEN random_pool_url(rpc_urls[MAINNET])
    ELSE IF network = SHARINGAN THEN {Return("https://sharingan.madara.zone")}
    ELSE IF network = PRAGMA_TESTNET
         THEN {Return("https://testnet.pragmaoracle.com/rpc")}
    ELSE IF network = DEVNET THEN {Return(local_rpc_url(port))}
    ELSE IF network = FORK_DEVNET THEN {Return(local_rpc_url(port))}
    ELSE {Raise("ClientException")}


(***************************************************************************)
(* Field-element codec (pragma.core.utils, a collaborator of this file): a *)
(* string is the big-endian base-256 number of its character codes.        *)
(***************************************************************************)
\* the characters "/" (code 47) to "Z" (code 90), in code order
CodecChars == "/0123456789:;<=>?@ABCDEFGHIJKLMNOPQRSTUVWXYZ"

ord(c) == 46 + (CHOOSE i \in 1..Len(CodecChars) : SubSeq(CodecChars, i, i) = c)

RECURSIVE str_to_felt_from(_, _)
str_to_felt_from(text, acc) ==
    IF Len(text) = 0 THEN acc
    ELSE str_to_felt_from(Tail(text), acc * 256 + ord(Head(text)))

str_to_felt(text) == str_to_felt_from(text, 0)

(***************************************************************************)
(* Enumerations.                                                           *)
(***************************************************************************)
EnumMember(enum, name, value) == [t |-> enum, name |-> name, value |-> value]

AggregationMode ==
    << EnumMember("AggregationMode", "MEDIAN", "Median"),
       EnumMember("AggregationMode", "AVERAGE", "Mean"),
       EnumMember("AggregationMode", "ERROR", "Error") >>

RequestStatus ==
    << EnumMember("RequestStatus", "UNINITIALIZED", "UNINITIALIZED"),
       EnumMember("RequestStatus", "RECEIVED", "RECEIVED"),
       EnumMember("RequestStatus", "FULFILLED", "FULFILLED"),
       EnumMember("RequestStatus", "CANCELLED", "CANCELLED"),
       EnumMember("RequestStatus", "OUT_OF_GAS", "OUT_OF_GAS") >>

members(enum) == {enum[i] : i \in 1..Len(enum)}

\* AggregationMode.serialize and RequestStatus.serialize: {self.value: None}
Enum_serialize_by_name(self) == [k \in {self.name} |-> PyNone]

Enum_serialize(self) == [k \in {self.value} |-> PyNone]

\* Enum("DataTypes", ["SPOT", "FUTURE", "OPTION"]): the functional API numbers
\* the members 1, 2, 3 in the order of the names
DataTypesNames == <<"SPOT", "FUTURE", "OPTION">>

DataTypes ==
    [i \in 1..Len(DataTypesNames) |->
        EnumMember("DataTypes", DataTypesNames[i], i)]

DataTypes_SPOT == DataTypes[1]
DataTypes_FUTURE == DataTypes[2]
DataTypes_OPTION == DataTypes[3]

\* x == i for a Python value x and an integer i (True == 1, False == 0)
py_eq_int(x, i) ==
    \/ x.t = "int" /\ x.i = i
    \/ x.t = "bool" /\ (IF x.b THEN 1 ELSE 0) = i

\* DataTypes(value): a member is returned as it is, any other value is looked
\* up among the members' values, and ValueError is raised when none has it
DataTypes_call_by_name(value) ==
    IF value.t = "DataTypes" THEN Return(value)
    ELSE IF value.t = "str" /\ \E m \in members(DataTypes) : m.name = value.s
    THEN Return(CHOOSE m \in members(DataTypes) : m.name = value.s)
    ELSE IF \E m \in members(DataTypes) : py_eq_int(value, m.value)
    THEN Return(CHOOSE m \in members(DataTypes) : py_eq_int(value, m.value))
    ELSE Raise("ValueError")

DataTypes_call(value) ==
    IF value.t = "DataTypes" THEN Return(value)
    ELSE IF \E m \in members(DataTypes) : py_eq_int(value, m.value)
    THEN Return(CHOOSE m \in members(DataTypes) : py_eq_int(value, m.value))
    ELSE Raise("ValueError")

(***************************************************************************)
(* Domain entities.                                                        *)
(***************************************************************************)
\* if isinstance(id_, str): id_ = str_to_felt(id_)
felt_id(id_) == IF isinstance_str(id_) THEN PyInt(str_to_felt(id_.s)) ELSE id_

\* bool(x) of an int or a bool
bool(x) == IF x.t = "bool" THEN x.b ELSE x.i # 0

\* if x is None: x = 0
none_to_zero(x) == IF x = PyNone THEN PyInt(0) ELSE x

\* Currency.__init__
Currency_init_no_coercion(id_, decimals, is_abstract_currency, starknet_address, ethereum_address) ==
    Return([cls |-> "Currency",
            id |-> felt_id(id_),
            decimals |-> decimals,
            is_abstract_currency |-> is_abstract_currency,
            starknet_address |-> none_to_zero(starknet_address),
            ethereum_address |-> none_to_zero(ethereum_address)])

Currency_init(id_, decimals, is_abstract_currency, starknet_address, ethereum_address) ==
    Return([cls |-> "Currency",
            id |-> felt_id(id_),
            decimals |-> decimals,
            is_abstract_currency |->
                IF isinstance_int(is_abstract_currency)
                THEN PyBool(bool(is_abstract_currency))
                ELSE is_abstract_currency,
            starknet_address |-> none_to_zero(starknet_address),
            ethereum_address |-> none_to_zero(ethereum_address)])

\* Currency.serialize
Currency_serialize(self) ==
    << self.id, self.decimals, self.is_abstract_currency,
       self.starknet_address, self.ethereum_address >>

\* Pair.__init__
Pair_init(id_, quote_currency_id, base_currency_id) ==
    Return([cls |-> "Pair",
            id |-> felt_id(id_),
            quote_currency_id |-> felt_id(quote_currency_id),
            base_currency_id |-> felt_id(base_currency_id)])

\* Pair.serialize
Pair_serialize_base_first(self) ==
    << self.id, self.base_currency_id, self.quote_currency_id >>

Pair_serialize(self) ==
    << self.id, self.quote_currency_id, self.base_currency_id >>

\* DataType.__init__: the pair id is checked before the variant
DataType_init(data_type, pair_id, expiration_timestamp) ==
    IF ~isinstance_str(pair_id) /\ ~isinstance_int(pair_id)
    THEN Raise("TypeError")
    ELSE IF DataTypes_call(data_type).kind = "raise"
    THEN DataTypes_call(data_type)
    ELSE Return([cls |-> "DataType",
                 pair_id |-> felt_id(pair_id),
                 data_type |-> DataTypes_call(data_type).v,
                 expiration_timestamp |-> expiration_timestamp])

\* DataType.serialize
DataType_serialize_spot_with_expiry(self) ==
    IF self.data_type = DataTypes_SPOT
    THEN [SpotEntry |-> self.pair_id,
          expiration_timestamp |-> self.expiration_timestamp]
    ELSE IF self.data_type = DataTypes_FUTURE
    THEN [FutureEntry |-> <<self.pair_id, self.expiration_timestamp>>]
    ELSE << >>

DataType_serialize(self) ==
    IF self.data_type = DataTypes_SPOT
    THEN [SpotEntry |-> self.pair_id]
    ELSE IF self.data_type = DataTypes_FUTURE
    THEN [FutureEntry |-> <<self.pair_id, self.expiration_timestamp>>]
    ELSE << >>

(***************************************************************************)
(* The calls a run can make.                                               *)
(***************************************************************************)
Omitted == [given |-> FALSE]
Given(x) == [given |-> TRUE, v |-> x]

\* network arguments: the configured names, endpoint overrides, and strings
\* that are neither
NetworkArgs ==
    Network \cup
    {"http", "http://localhost:9545", "https://rpc.example/v0_6", "httpdevnet"}
    \cup
    {"not-a-network", "", "htt", "HTTP://rpc.example", "Devnet", "devnet ",
     "xhttp://rpc.example", "goerli"}

PortArgs == {Omitted} \cup {Given(p) : p \in {0, 80, 6060, 65535}}

RpcCalls ==
    {[op |-> "get_rpc_url", network |-> n, port |-> p] :
        n \in NetworkArgs, p \in PortArgs}

LookupCalls == {[op |-> "chain_lookup", network |-> n] : n \in Network}

\* identifier strings of length n over a small alphabet
RECURSIVE StrsOfLen(_)
StrsOfLen(n) ==
    IF n = 0 THEN {""}
    ELSE {s \o c : s \in StrsOfLen(n - 1), c \in {"B", "/", "U"}}

IdStrings ==
    UNION {StrsOfLen(n) : n \in 0..MaxIdLen} \cup {"BTC", "USD", "ETH"}

\* 4346947 is the felt of "BTC"
IdInts == {0, 1, 4346947}

IdArgs == {PyStr(s) : s \in IdStrings} \cup {PyInt(i) : i \in IdInts}

NonIdArgs == {PyNone, PyList}

DataTypeArgs ==
    members(DataTypes)
    \cup {PyInt(i) : i \in 0..4}
    \cup {PyStr(s) : s \in {"SPOT", "FUTURE", "OPTION", "Spot", "SpotEntry"}}
    \cup {PyBool(TRUE), PyNone}

ExpirationArgs == {PyNone, PyInt(0), PyInt(1700000000)}

DataTypeCalls ==
    {[op |-> "DataType", data_type |-> d, pair_id |-> p,
      expiration_timestamp |-> e] :
        d \in DataTypeArgs,
        p \in IdArgs \cup NonIdArgs \cup {PyBool(TRUE)},
        e \in ExpirationArgs}

SmallIdArgs ==
    {PyStr("BTC"), PyStr("USD"), PyStr("B/U"), PyInt(1), PyInt(4346947)}

AddressArgs == {Omitted, Given(PyNone), Given(PyInt(0)), Given(PyInt(1234))}

\* a keyword argument, or nothing when the call leaves it out
keyword(name, arg) == IF arg.given THEN << <<name, arg.v>> >> ELSE << >>

\* the keyword a call site writes for the identifier: the parameter is named
\* id_, the attribute it becomes is named id
IdKeywords == {"id_", "id"}

CurrencyCalls ==
    {[op |-> "Currency",
      kwargs |-> << <<k, i>>, <<"decimals", d>>,
                    <<"is_abstract_currency", a>> >>
                 \o keyword("starknet_address", sa)
                 \o keyword("ethereum_address", ea)] :
        k \in IdKeywords,
        i \in SmallIdArgs \cup {PyNone},
        d \in {PyInt(0), PyInt(8), PyInt(18)},
        a \in {PyInt(0), PyInt(1), PyInt(2), PyBool(FALSE), PyBool(TRUE),
               PyNone},
        sa \in AddressArgs, ea \in AddressArgs}

\* the orders in which a call can write three keyword arguments
KeywordOrders ==
    {o \in [1..3 -> 1..3] : \A i, j \in 1..3 : o[i] = o[j] => i = j}

PairCalls ==
    {[op |-> "Pair",
      kwargs |-> [n \in 1..3 |->
                    << <<k, i>>, <<"quote_currency_id", q>>,
                       <<"base_currency_id", b>> >>[o[n]]]] :
        o \in KeywordOrders, k \in IdKeywords,
        i \in SmallIdArgs, q \in SmallIdArgs, b \in SmallIdArgs}

EnumCalls ==
    {[op |-> "enum_serialize", self |-> m] :
        m \in members(AggregationMode) \cup members(RequestStatus)}

EntityCalls ==
    LookupCalls \cup DataTypeCalls \cup CurrencyCalls \cup PairCalls
    \cup EnumCalls

PoolSizes == [PooledNetworks -> 1..MaxPool]

\* the get_rpc_url call sites, over every pool configuration
InitRpc ==
    /\ call \in RpcCalls
    /\ pc = "start"
    /\ obj = NoObj
    /\ result = NoResult
    /\ \E size \in PoolSizes : rpc_urls = RPC_URLS(size)

\* the other call sites, which never read the pools
InitEntity ==
    /\ call \in EntityCalls
    /\ pc = "start"
    /\ obj = NoObj
    /\ result = NoResult
    /\ rpc_urls = RPC_URLS([n \in PooledNetworks |-> 1])

Init == InitRpc \/ InitEntity

(***************************************************************************)
(* Actions.                                                                *)
(***************************************************************************)
\* a parameter after default binding
bound(arg, default) == IF arg.given THEN arg.v ELSE default

\* Binding of a keyword call to a signature: a keyword that names no
\* parameter, or a parameter without default that gets no argument, raises
\* TypeError before the body runs; otherwise each parameter takes the
\* argument written under its name, or its default.
bind(kwargs, params, defaults) ==
    IF \E k \in dict_keys(kwargs) : \A i \in 1..Len(params) : params[i] # k
    THEN Raise("TypeError")
    ELSE IF \E i \in 1..Len(params) :
              params[i] \notin dict_keys(kwargs) \cup dict_keys(defaults)
    THEN Raise("TypeError")
    ELSE Return([i \in 1..Len(params) |->
                   IF params[i] \in dict_keys(kwargs)
                   THEN dict_get(kwargs, params[i])
                   ELSE dict_get(defaults, params[i])])

\* the signatures of Currency.__init__ and Pair.__init__
Currency_params ==
    <<"id_", "decimals", "is_abstract_currency", "starknet_address",
      "ethereum_address">>

Currency_defaults ==
    << <<"starknet_address", PyNone>>, <<"ethereum_address", PyNone>> >>

Pair_params == <<"id_", "quote_currency_id", "base_currency_id">>

pc_after(r) == IF r.kind = "return" THEN "returned" ELSE "raised"

\* One call of get_rpc_url with outcome r; the call site may repeat it.
GetRpcUrl(r) ==
    /\ call.op = "get_rpc_url"
    /\ pc \in {"start", "returned", "raised"}
    /\ r \in get_rpc_url(call.network, bound(call.port, DefaultPort))
    /\ result' = r
    /\ pc' = pc_after(r)
    /\ UNCHANGED <<call, obj, rpc_urls>>

\* CHAIN_ID_TO_NETWORK[CHAIN_IDS[network]]
ChainLookup ==
    /\ call.op = "chain_lookup"
    /\ pc = "start"
    /\ result' = IF call.network \in dict_keys(CHAIN_IDS)
                    /\ dict_get(CHAIN_IDS, call.network)
                         \in dict_keys(CHAIN_ID_TO_NETWORK)
                 THEN Return(dict_get(CHAIN_ID_TO_NETWORK,
                                      dict_get(CHAIN_IDS, call.network)))
                 ELSE Raise("KeyError")
    /\ pc' = pc_after(result')
    /\ UNCHANGED <<call, obj, rpc_urls>>

\* the constructor either builds the whole object or raises
Constructed(r) ==
    /\ obj' = IF r.kind = "return" THEN r.v ELSE NoObj
    /\ result' = IF r.kind = "return" THEN NoResult ELSE r
    /\ pc' = IF r.kind = "return" THEN "constructed" ELSE "raised"
    /\ UNCHANGED <<call, rpc_urls>>

Serialized(v) ==
    /\ result' = Return(v)
    /\ pc' = "returned"
    /\ UNCHANGED <<call, obj, rpc_urls>>

NewCurrency ==
    /\ call.op = "Currency"
    /\ pc = "start"
    /\ LET b == bind(call.kwargs, Currency_params, Currency_defaults)
       IN IF b.kind = "raise" THEN Constructed(b)
          ELSE Constructed(Currency_init(b.v[1], b.v[2], b.v[3], b.v[4],
                                         b.v[5]))

SerializeCurrency ==
    /\ pc = "constructed"
    /\ obj.cls = "Currency"
    /\ Serialized(Currency_serialize(obj))

\* keyword arguments bind by name, whatever the order they are written in
NewPair ==
    /\ call.op = "Pair"
    /\ pc = "start"
    /\ LET b == bind(call.kwargs, Pair_params, << >>)
       IN IF b.kind = "raise" THEN Constructed(b)
          ELSE Constructed(Pair_init(b.v[1], b.v[2], b.v[3]))

SerializePair ==
    /\ pc = "constructed"
    /\ obj.cls = "Pair"
    /\ Serialized(Pair_serialize(obj))

NewDataType ==
    /\ call.op = "DataType"
    /\ pc = "start"
    /\ Constructed(DataType_init(call.data_type, call.pair_id,
                                 call.expiration_timestamp))

SerializeDataType ==
    /\ pc = "constructed"
    /\ obj.cls = "DataType"
    /\ Serialized(DataType_serialize(obj))

SerializeEnum ==
    /\ call.op = "enum_serialize"
    /\ pc = "start"
    /\ Serialized(Enum_serialize(call.self))

\* every outcome get_rpc_url can have in this model
RpcOutcomes ==
    {Return(n) : n \in NetworkArgs} \cup
    {Return(pool_entry(n, k)) : n \in PooledNetworks, k \in 1..MaxPool} \cup
    {Return(local_rpc_url(bound(p, DefaultPort))) : p \in PortArgs} \cup
    {Return("https://sharingan.madara.zone"),
     Return("https://testnet.pragmaoracle.com/rpc"),
     Raise("ClientException"), Raise("ValueError"), Raise("IndexError")}

NextRpc == \E r \in RpcOutcomes : GetRpcUrl(r)

Next ==
    \/ NextRpc
    \/ ChainLookup
    \/ NewCurrency
    \/ SerializeCurrency
    \/ NewPair
    \/ SerializePair
    \/ NewDataType
    \/ SerializeDataType
    \/ SerializeEnum

Spec == Init /\ [][Next]_vars

\* A fair random source: a pool entry that stays possible is eventually drawn.
RpcSpec ==
    /\ InitRpc
    /\ [][NextRpc]_vars
    /\ \A n \in PooledNetworks : \A k \in 1..MaxPool :
          WF_vars(GetRpcUrl(Return(pool_entry(n, k))))

(***************************************************************************)
(* Properties of get_rpc_url.                                              *)
(***************************************************************************)
\* a get_rpc_url call that has been made at least once
RpcDone == call.op = "get_rpc_url" /\ pc \in {"returned", "raised"}

\* the string begins with the four characters h, t, t, p
UrlLike(s) == Len(s) >= 4 /\ s = "http" \o SubSeq(s, 5, Len(s))

SevenNames ==
    {"devnet", "testnet", "sepolia", "mainnet", "sharingan", "pragma_testnet",
     "fork_devnet"}

\* C1: get_rpc_url raises ClientException exactly when network is neither
\* URL-like nor one of the seven configured names; every other call returns a
\* string and raises nothing, whatever the port.
C1_ConfigErrorExactlyOnUnknown ==
    RpcDone =>
        /\ (result = Raise("ClientException"))
             <=> ~(UrlLike(call.network) \/ call.network \in SevenNames)
        /\ (UrlLike(call.network) \/ call.network \in SevenNames)
             => result.kind = "return" /\ Len(result.v) > 0
        /\ SevenNames = dict_keys(CHAIN_IDS)

C1_Witness ==
    /\ RpcDone
    /\ call.network = "not-a-network"
    /\ call.port = Given(6060)
    /\ result = Raise("ClientException")

\* every call to a pooled network returns an entry of that network's pool
C2_DrawnFromOwnPool ==
    RpcDone /\ call.network \in PooledNetworks =>
        /\ result.kind = "return"
        /\ \E k \in 1..Len(rpc_urls[call.network]) :
              result.v = rpc_urls[call.network][k]
        /\ \A n \in PooledNetworks \ {call.network} :
              \A k \in 1..Len(rpc_urls[n]) : result.v # rpc_urls[n][k]

\* C2: for each pooled network every call returns an entry of that network's
\* own pool, and with a fair random source every configured entry of the pool
\* is eventually returned, whatever the size of the pool.
C2_EveryPoolEntryReturned ==
    /\ []C2_DrawnFromOwnPool
    /\ \A n \in PooledNetworks : \A k \in 1..MaxPool :
          [](call.network = n /\ k <= Len(rpc_urls[n])
               => <>(/\ RpcDone
                     /\ k <= Len(rpc_urls[n])
                     /\ result = Return(rpc_urls[n][k])))

C2_Witness ==
    /\ RpcDone
    /\ call.network = TESTNET
    /\ Len(rpc_urls[TESTNET]) > 1
    /\ result = Return(rpc_urls[TESTNET][Len(rpc_urls[TESTNET])])

\* C3: a network argument that starts with http is returned unchanged, for
\* every port.
C3_UrlReturnedUnchanged ==
    RpcDone /\ UrlLike(call.network) => result = Return(call.network)

C3_Witness ==
    /\ RpcDone
    /\ call.network = "http://localhost:9545"
    /\ call.port = Given(6060)
    /\ result = Return("http://localhost:9545")

\* the value of a decimal numeral; -1 when the string is not one
RECURSIVE numeral_value(_, _)
numeral_value(s, acc) ==
    IF Len(s) = 0 THEN acc
    ELSE IF \E d \in 0..9 : SubSeq(Digits, d + 1, d + 1) = Head(s)
    THEN numeral_value(Tail(s),
                       acc * 10 + (CHOOSE d \in 0..9 :
                                     SubSeq(Digits, d + 1, d + 1) = Head(s)))
    ELSE -1

\* s is "http://127.0.0.1:<p>/rpc" with <p> the decimal numeral of p
IsLocalUrl(s, p) ==
    /\ Len(s) >= 22
    /\ SubSeq(s, 1, 17) = "http://127.0.0.1:"
    /\ SubSeq(s, Len(s) - 3, Len(s)) = "/rpc"
    /\ numeral_value(SubSeq(s, 18, Len(s) - 4), 0) = p
    /\ (Len(s) > 22 => SubSeq(s, 18, 18) # "0")

\* C4: devnet and fork_devnet give http://127.0.0.1:<port>/rpc with the
\* caller's port, 5050 when the port is omitted; sharingan and pragma_testnet
\* give one fixed URL whatever the port.
C4_LocalAndFixedUrls ==
    RpcDone =>
        /\ call.network \in {"devnet", "fork_devnet"} =>
              /\ result.kind = "return"
              /\ IsLocalUrl(result.v,
                            IF call.port.given THEN call.port.v ELSE 5050)
              /\ (call.port = Given(6060)
                    => result.v = "http://127.0.0.1:6060/rpc")
              /\ (call.port = Omitted
                    => result.v = "http://127.0.0.1:5050/rpc")
        /\ call.network = "sharingan"
              => result = Return("https://sharingan.madara.zone")
        /\ call.network = "pragma_testnet"
              => result = Return("https://testnet.pragmaoracle.com/rpc")

C4_Witness ==
    /\ RpcDone
    /\ call.network = "fork_devnet"
    /\ call.port = Given(6060)
    /\ result = Return("http://127.0.0.1:6060/rpc")

(***************************************************************************)
(* Properties of the entities and enumerations.                            *)
(***************************************************************************)
IsStrOrInt(x) == x.t \in {"str", "int", "bool"}

\* v is what an identifier argument becomes: the integer the codec gives for
\* the string given, or the integer given
IsFeltOf(v, arg) ==
    IF arg.t = "str" THEN v = PyInt(str_to_felt(arg.s)) ELSE v = arg

DataTypeDone == call.op = "DataType" /\ pc # "start"

TagNames == {"SPOT", "FUTURE", "OPTION"}

\* C5 as stated: with the tag given by its name as in DataType("SPOT",
\* "BTC/USD", None) and a string or integer pair_id the construction succeeds;
\* another pair_id gives a type error, another data_type an invalid-variant
\* error.
C5_Original ==
    DataTypeDone =>
        /\ (IsStrOrInt(call.pair_id) /\ call.data_type.t = "str"
              /\ call.data_type.s \in TagNames)
             => pc \in {"constructed", "returned"}
        /\ ~IsStrOrInt(call.pair_id) => result = Raise("TypeError")
        /\ (IsStrOrInt(call.pair_id) /\ call.data_type.t = "str"
              /\ call.data_type.s \notin TagNames)
             => result = Raise("ValueError")

\* data_type is a member of DataTypes or equals a member's value 1, 2 or 3
IsVariant(d) ==
    \/ d.t = "DataTypes"
    \/ d.t = "int" /\ d.i \in {1, 2, 3}
    \/ d.t = "bool" /\ d.b

\* C5 (amended): construction succeeds exactly when pair_id is a string or an
\* integer and data_type is a DataTypes member or equals a member's value 1, 2
\* or 3; another pair_id raises TypeError, checked first; any other data_type,
\* the tag names given as strings included, raises ValueError.
C5_ConstructionOutcome ==
    DataTypeDone =>
        /\ (IsStrOrInt(call.pair_id) /\ IsVariant(call.data_type))
             <=> pc \in {"constructed", "returned"}
        /\ pc \in {"constructed", "returned"} =>
              /\ obj.cls = "DataType"
              /\ obj.data_type.name \in TagNames
              /\ (call.data_type.t = "DataTypes"
                    => obj.data_type = call.data_type)
        /\ ~IsStrOrInt(call.pair_id) => result = Raise("TypeError")
        /\ (IsStrOrInt(call.pair_id) /\ ~IsVariant(call.data_type))
             => result = Raise("ValueError")
        /\ (IsStrOrInt(call.pair_id) /\ call.data_type.t = "str")
             => result = Raise("ValueError")

C5_Witness ==
    /\ DataTypeDone
    /\ call.data_type = DataTypes_FUTURE
    /\ call.pair_id = PyStr("BTC")
    /\ call.expiration_timestamp = PyInt(1700000000)
    /\ pc = "constructed"
    /\ obj.data_type.name = "FUTURE"

\* C6: SPOT serializes to {SpotEntry: pair_id} whatever the expiration, FUTURE
\* to {FutureEntry: (pair_id, expiration_timestamp)}, OPTION to the empty
\* mapping; pair_id is the felt of the string given, or the integer given.
C6_SerializeByVariant ==
    call.op = "DataType" /\ pc = "returned" =>
        /\ result.kind = "return"
        /\ obj.data_type.name = "SPOT" =>
              /\ DOMAIN result.v = {"SpotEntry"}
              /\ IsFeltOf(result.v["SpotEntry"], call.pair_id)
        /\ obj.data_type.name = "FUTURE" =>
              /\ DOMAIN result.v = {"FutureEntry"}
              /\ Len(result.v["FutureEntry"]) = 2
              /\ IsFeltOf(result.v["FutureEntry"][1], call.pair_id)
              /\ result.v["FutureEntry"][2] = call.expiration_timestamp
        /\ obj.data_type.name = "OPTION" => DOMAIN result.v = {}

C6_Witness ==
    /\ call.op = "DataType"
    /\ pc = "returned"
    /\ call.data_type = DataTypes_SPOT
    /\ call.pair_id = PyStr("BTC")
    /\ call.expiration_timestamp = PyInt(1700000000)
    /\ result = Return([SpotEntry |-> PyInt(4346947)])

\* the argument a call writes under a keyword, None when it leaves it out
Arg(name) ==
    IF name \in dict_keys(call.kwargs) THEN dict_get(call.kwargs, name)
    ELSE PyNone

\* C7: Currency.serialize returns the five elements id, decimals,
\* is_abstract_currency, starknet_address, ethereum_address in that order: the
\* id is the felt of a string or the integer given, an integer 0 or 1 for
\* is_abstract_currency comes out as False or True, and an omitted address
\* comes out as 0.
C7_CurrencySerialize ==
    call.op = "Currency" /\ pc = "returned" =>
        /\ result.kind = "return"
        /\ Len(result.v) = 5
        /\ IsFeltOf(result.v[1], Arg("id_"))
        /\ result.v[2] = Arg("decimals")
        /\ (Arg("is_abstract_currency") = PyInt(0)
              => result.v[3] = PyBool(FALSE))
        /\ (Arg("is_abstract_currency") = PyInt(1)
              => result.v[3] = PyBool(TRUE))
        /\ (Arg("is_abstract_currency").t = "bool"
              => result.v[3] = Arg("is_abstract_currency"))
        /\ result.v[4] = IF Arg("starknet_address") = PyNone THEN PyInt(0)
                         ELSE Arg("starknet_address")
        /\ result.v[5] = IF Arg("ethereum_address") = PyNone THEN PyInt(0)
                         ELSE Arg("ethereum_address")

C7_Witness ==
    /\ call.op = "Currency"
    /\ pc = "returned"
    /\ call.kwargs = << <<"id_", PyStr("BTC")>>, <<"decimals", PyInt(8)>>,
                        <<"is_abstract_currency", PyInt(0)>> >>
    /\ result = Return(<<PyInt(4346947), PyInt(8), PyBool(FALSE), PyInt(0),
                         PyInt(0)>>)

PairDone == call.op = "Pair" /\ pc # "start"

\* C8 as stated: a Pair built from the named arguments id, quote_currency_id
\* and base_currency_id, in any order, serializes to [id, quote, base].
C8_Original ==
    (PairDone
       /\ dict_keys(call.kwargs) = {"id", "quote_currency_id", "base_currency_id"})
      => /\ pc \in {"constructed", "returned"}
         /\ pc = "returned" =>
               /\ Len(result.v) = 3
               /\ IsFeltOf(result.v[1], Arg("id"))
               /\ IsFeltOf(result.v[2], Arg("quote_currency_id"))
               /\ IsFeltOf(result.v[3], Arg("base_currency_id"))

\* C8 (amended): a Pair built from the named arguments id_, quote_currency_id
\* and base_currency_id, in any order, serializes to [id, quote, base], each
\* the felt of its string or its integer; a call that names the identifier id
\* raises TypeError and builds no Pair.
C8_PairSerialize ==
    PairDone =>
        /\ dict_keys(call.kwargs) = {"id_", "quote_currency_id", "base_currency_id"}
             => /\ pc \in {"constructed", "returned"}
                /\ pc = "returned" =>
                      /\ result.kind = "return"
                      /\ Len(result.v) = 3
                      /\ IsFeltOf(result.v[1], Arg("id_"))
                      /\ IsFeltOf(result.v[2], Arg("quote_currency_id"))
                      /\ IsFeltOf(result.v[3], Arg("base_currency_id"))
        /\ "id" \in dict_keys(call.kwargs) => result = Raise("TypeError")

C8_Witness ==
    /\ call.op = "Pair"
    /\ pc = "returned"
    /\ call.kwargs = << <<"base_currency_id", PyStr("BTC")>>,
                        <<"quote_currency_id", PyStr("USD")>>,
                        <<"id_", PyStr("B/U")>> >>
    /\ result = Return(<<PyInt(4337493), PyInt(5591876), PyInt(4346947)>>)

\* the networks of CHAIN_IDS that have network n's chain id, in table order
SameChainId(n) ==
    {i \in 1..Len(CHAIN_IDS) : CHAIN_IDS[i][2] = dict_get(CHAIN_IDS, n)}

\* C9: CHAIN_ID_TO_NETWORK[CHAIN_IDS[n]] is defined for every network n and is
\* a network with n's chain id: n itself when no other network has that chain
\* id, and otherwise the last network of CHAIN_IDS that has it.
C9_InverseConsistent ==
    call.op = "chain_lookup" /\ pc # "start" =>
        /\ result.kind = "return"
        /\ \E i \in SameChainId(call.network) :
              /\ CHAIN_IDS[i][1] = result.v
              /\ \A j \in SameChainId(call.network) : j <= i
        /\ SameChainId(call.network) = {i \in 1..Len(CHAIN_IDS) :
                                          CHAIN_IDS[i][1] = call.network}
             => result.v = call.network
        /\ call.network \in {"devnet", "sharingan", "testnet", "fork_devnet"}
             => result.v = "fork_devnet"

C9_Witness ==
    /\ call.op = "chain_lookup"
    /\ call.network = DEVNET
    /\ result = Return(FORK_DEVNET)

LowerCase == "abcdefghijklmnopqrstuvwxyz"
UpperCase == "ABCDEFGHIJKLMNOPQRSTUVWXYZ"

\* s with its lower-case letters made upper-case
RECURSIVE upper(_)
upper(s) ==
    IF Len(s) = 0 THEN ""
    ELSE (IF \E i \in 1..26 : SubSeq(LowerCase, i, i) = Head(s)
          THEN LET i == CHOOSE j \in 1..26 : SubSeq(LowerCase, j, j) = Head(s)
               IN SubSeq(UpperCase, i, i)
          ELSE Head(s)) \o upper(Tail(s))

EnumDone == call.op = "enum_serialize" /\ pc = "returned"

\* C10 as stated: the single key of the mapping is the variant's name (as
\* MEDIAN gives Median) and its value is null.
C10_Original ==
    EnumDone =>
        \E k \in DOMAIN result.v :
            /\ DOMAIN result.v = {k}
            /\ upper(k) = call.self.name
            /\ result.v[k] = PyNone

\* the tag each variant is declared with
DeclaredTag(name) ==
    CASE name = "MEDIAN" -> "Median"
      [] name = "AVERAGE" -> "Mean"
      [] name = "ERROR" -> "Error"
      [] OTHER -> name

\* C10 (amended): serialize returns a single-key mapping whose key is the tag
\* the variant is declared with (Median, Mean, Error; for RequestStatus the
\* variant's name) and whose value is null; distinct variants of one
\* enumeration give distinct keys.
C10_EnumSerialize ==
    EnumDone =>
        /\ result.kind = "return"
        /\ DOMAIN result.v = {DeclaredTag(call.self.name)}
        /\ result.v[DeclaredTag(call.self.name)] = PyNone
        /\ \A m \in members(AggregationMode) \cup members(RequestStatus) :
              (m.t = call.self.t /\ m # call.self)
                => DOMAIN Enum_serialize(m) # DOMAIN result.v

C10_Witness ==
    /\ EnumDone
    /\ call.self.name = "AVERAGE"
    /\ result = Return([Mean |-> PyNone])

====
